---- MODULE Spec2Model ----
(***************************************************************************)
(* Causal knowledge graph (DKG) and causal audit of chaoschain-sdk-ts.     *)
(*                                                                         *)
(* The state is one DKG instance (src/src/dkg/DKG.ts): the node map with   *)
(* its key order, the child-edge map and the root list, plus the outcome   *)
(* of the last query made on it.  Strings are TLA+ strings; an optional    *)
(* value is <<>> (undefined) or <<v>>; a thrown Error is carried as a      *)
(* record of its message template and the id interpolated into it.         *)
(* keccak256 is a free (injective) constructor.                            *)
(***************************************************************************)
EXTENDS Integers, Sequences, FiniteSets, TLC

\* ------------------------------------------------------------------ bounds
MaxAdds == 3      \* addNode calls in one run
MaxParents == 2   \* length of a node's parent list
MaxTs == 2        \* timestamps are 1..MaxTs

Ids == {"a", "b", "c"}
Undefined == <<>>

\* JavaScript's default sort order (UTF-16 code units) on the strings used.
StringOrder == <<"", "a", "a|b", "b", "c", "|">>

StrRank(s) == CHOOSE i \in 1..Len(StringOrder) : StringOrder[i] = s

StrLess(x, y) == StrRank(x) < StrRank(y)

Range(s) == {s[i] : i \in 1..Len(s)}

NoDup(s) == \A i, j \in 1..Len(s) : i # j => s[i] # s[j]

SeqsUpTo(S, n) == UNION {[1..k -> S] : k \in 0..n}

\* ------------------------------------------------------------------ DKGNode
DKGNode(data) ==
    [author |-> data.author,
     sig |-> data.sig,
     ts |-> data.ts,
     xmtpMsgId |-> data.xmtpMsgId,
     artifactIds |-> data.artifactIds,
     payloadHash |-> data.payloadHash,
     parents |-> data.parents,
     vlc |-> data.vlc,
     agentId |-> data.agentId,
     content |-> data.content,
     nodeType |-> IF data.nodeType = Undefined THEN <<"message">> ELSE data.nodeType,
     metadata |-> IF data.metadata = Undefined THEN <<"{}">> ELSE data.metadata]

\* [...parents].sort(): insertion of x into an already sorted list.
RECURSIVE SortedInsert(_, _)
SortedInsert(s, x) ==
    IF s = <<>> THEN <<x>>
    ELSE IF StrLess(x, Head(s)) THEN <<x>> \o s
    ELSE <<Head(s)>> \o SortedInsert(Tail(s), x)

RECURSIVE SortStrings(_)
\* Mutant of SortStrings: the parents are joined in their stored order.
SortStringsSkipped(s) == s

SortStrings(s) ==
    IF s = <<>> THEN <<>> ELSE SortedInsert(SortStrings(Tail(s)), Head(s))

\* Array.prototype.join
RECURSIVE Join(_, _)
Join(s, sep) ==
    IF s = <<>> THEN ""
    ELSE IF Len(s) = 1 THEN s[1]
    ELSE s[1] \o sep \o Join(Tail(s), sep)

keccak256(bytes) == <<"keccak256", bytes>>

toUtf8Bytes(str) == <<"utf8", str>>

concat(h1, h2) == <<"concat", h1, h2>>

ZeroHash == <<"0x00">>

\* Mutant of Canonical: the signature is serialized too.
CanonicalWithSig(node) ==
    Join(<<node.author, ToString(node.ts), node.xmtpMsgId, node.payloadHash,
           Join(SortStrings(node.parents), "|"), node.sig>>, "|")

Canonical(node) ==
    Join(<<node.author, ToString(node.ts), node.xmtpMsgId, node.payloadHash,
           Join(SortStrings(node.parents), "|")>>, "|")

computeCanonicalHash(node) == keccak256(toUtf8Bytes(Canonical(node)))

\* ------------------------------------------------------------------ DKG
EmptyDKG == [nodes |-> <<>>, keys |-> <<>>, edges |-> <<>>, rootNodes |-> <<>>]

\* edges.get(parentId).push(id) for each parent, creating the list when absent
RECURSIVE pushEdges(_, _, _)
pushEdges(edges, parents, id) ==
    IF parents = <<>> THEN edges
    ELSE LET p == Head(parents)
             cur == IF p \in DOMAIN edges THEN edges[p] ELSE <<>>
             e1 == [k \in DOMAIN edges \cup {p} |-> IF k = p THEN Append(cur, id) ELSE edges[k]]
         IN pushEdges(e1, Tail(parents), id)

getNode(d, nodeId) == IF nodeId \in DOMAIN d.nodes THEN <<d.nodes[nodeId]>> ELSE Undefined

\* Mutant of addNode: edges are built only from parents already stored.
addNodeDroppingDangling(d, node, nodeId) ==
    LET id == IF nodeId = "" THEN node.xmtpMsgId ELSE nodeId
        stored(p) == p \in DOMAIN d.nodes
    IN [nodes |-> [k \in DOMAIN d.nodes \cup {id} |-> IF k = id THEN node ELSE d.nodes[k]],
        keys |-> IF id \in DOMAIN d.nodes THEN d.keys ELSE Append(d.keys, id),
        edges |-> pushEdges(d.edges, SelectSeq(node.parents, stored), id),
        rootNodes |-> IF node.parents = <<>> /\ id \notin Range(d.rootNodes)
                      THEN Append(d.rootNodes, id) ELSE d.rootNodes]

\* nodeId = "" stands for the omitted (falsy) second argument.
addNode(d, node, nodeId) ==
    LET id == IF nodeId = "" THEN node.xmtpMsgId ELSE nodeId
    IN [nodes |-> [k \in DOMAIN d.nodes \cup {id} |-> IF k = id THEN node ELSE d.nodes[k]],
        keys |-> IF id \in DOMAIN d.nodes THEN d.keys ELSE Append(d.keys, id),
        edges |-> pushEdges(d.edges, node.parents, id),
        rootNodes |-> IF node.parents = <<>> /\ id \notin Range(d.rootNodes)
                      THEN Append(d.rootNodes, id) ELSE d.rootNodes]

getChildren(d, nodeId) == IF nodeId \in DOMAIN d.edges THEN d.edges[nodeId] ELSE <<>>

CycleError(nodeId) == [message |-> "Cycle detected in DKG at node ${nodeId}", nodeId |-> nodeId]

NotFoundError(nodeId) == [message |-> "Node ${nodeId} not found", nodeId |-> nodeId]

\* visit(nodeId) of topologicalSort; st.error = <<e>> is an exception in flight.
RECURSIVE visit(_, _, _)
RECURSIVE visitParents(_, _, _)
\* Mutant of visit: visiting.delete(nodeId) is left out.
visitNoDelete(d, st, nodeId) ==
    IF st.error # <<>> THEN st
    ELSE IF nodeId \in st.visiting THEN [st EXCEPT !.error = <<CycleError(nodeId)>>]
    ELSE IF nodeId \in st.visited THEN st
    ELSE IF nodeId \notin DOMAIN d.nodes
         THEN [st EXCEPT !.visiting = @ \cup {nodeId}, !.error = <<NotFoundError(nodeId)>>]
    ELSE LET s1 == visitParents(d, [st EXCEPT !.visiting = @ \cup {nodeId}],
                                d.nodes[nodeId].parents)
         IN IF s1.error # <<>> THEN s1
            ELSE [s1 EXCEPT !.visited = @ \cup {nodeId},
                            !.result = Append(@, nodeId)]

\* Mutant of visit: a node met again while being visited is skipped, not reported.
visitIgnoringCycle(d, st, nodeId) ==
    IF st.error # <<>> THEN st
    ELSE IF nodeId \in st.visiting THEN st
    ELSE IF nodeId \in st.visited THEN st
    ELSE IF nodeId \notin DOMAIN d.nodes
         THEN [st EXCEPT !.visiting = @ \cup {nodeId}, !.error = <<NotFoundError(nodeId)>>]
    ELSE LET s1 == visitParents(d, [st EXCEPT !.visiting = @ \cup {nodeId}],
                                d.nodes[nodeId].parents)
         IN IF s1.error # <<>> THEN s1
            ELSE [s1 EXCEPT !.visiting = @ \ {nodeId},
                            !.visited = @ \cup {nodeId},
                            !.result = Append(@, nodeId)]

visit(d, st, nodeId) ==
    IF st.error # <<>> THEN st
    ELSE IF nodeId \in st.visiting THEN [st EXCEPT !.error = <<CycleError(nodeId)>>]
    ELSE IF nodeId \in st.visited THEN st
    ELSE IF nodeId \notin DOMAIN d.nodes
         THEN [st EXCEPT !.visiting = @ \cup {nodeId}, !.error = <<NotFoundError(nodeId)>>]
    ELSE LET s1 == visitParents(d, [st EXCEPT !.visiting = @ \cup {nodeId}],
                                d.nodes[nodeId].parents)
         IN IF s1.error # <<>> THEN s1
            ELSE [s1 EXCEPT !.visiting = @ \ {nodeId},
                            !.visited = @ \cup {nodeId},
                            !.result = Append(@, nodeId)]

visitParents(d, st, parents) ==
    IF parents = <<>> \/ st.error # <<>> THEN st
    ELSE visitParents(d, visit(d, st, Head(parents)), Tail(parents))

RECURSIVE visitAll(_, _, _)
visitAll(d, st, keys) ==
    IF keys = <<>> \/ st.error # <<>> THEN st
    ELSE visitAll(d, IF Head(keys) \in st.visited THEN st ELSE visit(d, st, Head(keys)),
                  Tail(keys))

\* Mutant of topologicalSort: the nodes in key order, parents not visited first.
topologicalSortKeyOrder(d) == [result |-> d.keys, error |-> <<>>]

\* result lists the keys of the nodes pushed; error is <<>> or <<thrown Error>>.
topologicalSort(d) ==
    LET st == visitAll(d, [visited |-> {}, visiting |-> {}, result |-> <<>>, error |-> <<>>],
                       d.keys)
    IN [result |-> st.result, error |-> st.error]

RECURSIVE hashRound(_)
\* Mutant of hashRound: an unpaired last element is hashed with itself.
hashRoundDuplicateLast(current) ==
    IF current = <<>> THEN <<>>
    ELSE IF Len(current) = 1 THEN <<keccak256(concat(current[1], current[1]))>>
    ELSE <<keccak256(concat(current[1], current[2]))>>
         \o hashRound(SubSeq(current, 3, Len(current)))

\* Mutant of hashRound: an unpaired last element is dropped.
hashRoundDropLast(current) ==
    IF Len(current) < 2 THEN <<>>
    ELSE <<keccak256(concat(current[1], current[2]))>>
         \o hashRound(SubSeq(current, 3, Len(current)))

\* Mutant of hashRound: no pair is hashed, the list is carried over as it is.
hashRoundUnpaired(current) == current

\* Pairwise hashing of one round: adjacent pairs, an unpaired last element carried.
hashRound(current) ==
    IF current = <<>> THEN <<>>
    ELSE IF Len(current) = 1 THEN current
    ELSE <<keccak256(concat(current[1], current[2]))>>
         \o hashRound(SubSeq(current, 3, Len(current)))

RECURSIVE hashRounds(_)
hashRounds(current) ==
    IF Len(current) > 1 THEN hashRounds(hashRound(current)) ELSE current[1]

\* value is <<root>>, or error is <<the Error thrown by topologicalSort>>.
computeThreadRoot(d) ==
    LET sorted == topologicalSort(d)
        hashes == [i \in 1..Len(sorted.result) |->
                      computeCanonicalHash(d.nodes[sorted.result[i]])]
    IN IF sorted.error # <<>> THEN [value |-> <<>>, error |-> sorted.error]
       ELSE IF Len(sorted.result) = 0 THEN [value |-> <<ZeroHash>>, error |-> <<>>]
       ELSE IF Len(hashes) = 1 THEN [value |-> <<hashes[1]>>, error |-> <<>>]
       ELSE [value |-> <<hashRounds(hashes)>>, error |-> <<>>]

\* count(id) of countDescendants: c.visited is the closure's visited set.
RECURSIVE count(_, _, _)
RECURSIVE countChildren(_, _, _)
count(d, c, id) ==
    IF id \in c.visited THEN [c EXCEPT !.total = 0]
    ELSE LET children == getChildren(d, id)
             c1 == countChildren(d, [visited |-> c.visited \cup {id}, total |-> Len(children)],
                                 children)
         IN c1

countChildren(d, c, children) ==
    IF children = <<>> THEN c
    ELSE LET r == count(d, c, Head(children))
         IN countChildren(d, [visited |-> r.visited, total |-> c.total + r.total],
                          Tail(children))

countDescendants(d, nodeId) == count(d, [visited |-> {}, total |-> 0], nodeId).total

\* critical.sort((a, b) => countDescendants(b) - countDescendants(a)): the sort is
\* stable; x is inserted behind every element that does not count less.
RECURSIVE insertByDescendants(_, _, _)
insertByDescendants(d, s, x) ==
    IF s = <<>> THEN <<x>>
    ELSE IF countDescendants(d, Head(s)) < countDescendants(d, x) THEN <<x>> \o s
    ELSE <<Head(s)>> \o insertByDescendants(d, Tail(s), x)

RECURSIVE sortByDescendants(_, _)
sortByDescendants(d, s) ==
    IF s = <<>> THEN <<>>
    ELSE insertByDescendants(d, sortByDescendants(d, SubSeq(s, 1, Len(s) - 1)), s[Len(s)])

\* Mutant of findCriticalNodes: a node must exceed the threshold.
findCriticalNodesAbove(d, threshold) ==
    LET isCritical(nodeId) == countDescendants(d, nodeId) > threshold
    IN sortByDescendants(d, SelectSeq(d.keys, isCritical))

findCriticalNodes(d, threshold) ==
    LET isCritical(nodeId) == countDescendants(d, nodeId) >= threshold
    IN sortByDescendants(d, SelectSeq(d.keys, isCritical))

\* JavaScript truthiness of an optional bigint: undefined and 0n are falsy.
Truthy(agentId) == agentId # Undefined /\ agentId[1] # 0

agentKeyOf(node) == IF Truthy(node.agentId) THEN ToString(node.agentId[1]) ELSE node.author

\* Contributions are kept in tenths (1 + 0.1 * descendants = (10 + descendants) / 10);
\* a weight is the exact quotient num / den.
RECURSIVE SumOver(_, _, _)
\* Mutant of SumOver: a node contributes 0.1 per descendant and no base weight.
SumOverDescendantsOnly(d, ks, key) ==
    IF ks = <<>> THEN 0
    ELSE (IF agentKeyOf(d.nodes[Head(ks)]) = key
          THEN countDescendants(d, Head(ks)) ELSE 0)
         + SumOver(d, Tail(ks), key)

SumOver(d, ks, key) ==
    IF ks = <<>> THEN 0
    ELSE (IF agentKeyOf(d.nodes[Head(ks)]) = key
          THEN 10 + countDescendants(d, Head(ks)) ELSE 0)
         + SumOver(d, Tail(ks), key)

\* Mutant of computeContributionWeights: the contributions are divided by the
\* number of nodes instead of their total.
computeContributionWeightsPerNode(d) ==
    LET agents == {agentKeyOf(d.nodes[k]) : k \in Range(d.keys)}
    IN [a \in agents |-> [num |-> SumOver(d, d.keys, a), den |-> 10 * Len(d.keys)]]

computeContributionWeights(d) ==
    LET agents == {agentKeyOf(d.nodes[k]) : k \in Range(d.keys)}
        agentContributions == [a \in agents |-> SumOver(d, d.keys, a)]
        RECURSIVE Total(_)
        Total(S) == IF S = {} THEN 0
                    ELSE LET a == CHOOSE x \in S : TRUE
                         IN agentContributions[a] + Total(S \ {a})
        total == Total(agents)
    IN [a \in agents |-> [num |-> agentContributions[a], den |-> total]]

\* ------------------------------------------------------------------ serialization
DigitStrings == <<"0", "1", "2", "3", "4", "5", "6", "7", "8", "9">>

BigInt(str) == CHOOSE n \in 0..9 : DigitStrings[n + 1] = str

nodeToDict(node) ==
    [author |-> node.author,
     sig |-> node.sig,
     ts |-> node.ts,
     xmtp_msg_id |-> node.xmtpMsgId,
     artifact_ids |-> node.artifactIds,
     payload_hash |-> node.payloadHash,
     parents |-> node.parents,
     vlc |-> node.vlc,
     agent_id |-> IF Truthy(node.agentId) THEN <<ToString(node.agentId[1])>> ELSE Undefined,
     content |-> node.content,
     node_type |-> node.nodeType,
     metadata |-> node.metadata]

\* The camelCase fallbacks (data.xmtpMsgId, ...) read keys the snake_case
\* dictionaries do not have.
nodeFromDict(data) ==
    DKGNode([author |-> data.author,
             sig |-> data.sig,
             ts |-> data.ts,
             xmtpMsgId |-> data.xmtp_msg_id,
             artifactIds |-> data.artifact_ids,
             payloadHash |-> data.payload_hash,
             parents |-> data.parents,
             vlc |-> data.vlc,
             agentId |-> IF data.agent_id # Undefined /\ data.agent_id[1] # ""
                         THEN <<BigInt(data.agent_id[1])>> ELSE Undefined,
             content |-> data.content,
             nodeType |-> data.node_type,
             metadata |-> data.metadata])

RECURSIVE addMessages(_, _)
addMessages(d, messages) ==
    IF messages = <<>> THEN d
    ELSE addMessages(addNode(d, nodeFromDict(Head(messages)), ""), Tail(messages))

fromXMTPThread(messages) == addMessages(EmptyDKG, messages)

\* DKG.toDict: the node dictionaries carry the store key as `id`.
toDict(d) ==
    [nodes |-> [i \in 1..Len(d.keys) |->
                   [id |-> d.keys[i]] @@ nodeToDict(d.nodes[d.keys[i]])],
     edges |-> d.edges,
     rootNodes |-> d.rootNodes]

SyntaxError == [message |-> "Cannot convert ${agent_id} to a BigInt"]

\* BigInt(data.agent_id) throws on a string that is not a number.
throwsBigInt(nodeData) ==
    /\ nodeData.agent_id # Undefined
    /\ nodeData.agent_id[1] # ""
    /\ nodeData.agent_id[1] \notin Range(DigitStrings)

RECURSIVE addNodeDicts(_, _)
addNodeDicts(d, nodeDicts) ==
    IF nodeDicts = <<>> THEN [value |-> <<d>>, error |-> <<>>]
    ELSE IF throwsBigInt(Head(nodeDicts)) THEN [value |-> <<>>, error |-> <<SyntaxError>>]
    ELSE addNodeDicts(addNode(d, nodeFromDict(Head(nodeDicts)), Head(nodeDicts).id),
                      Tail(nodeDicts))

\* DKG.fromDict: value is <<the DKG>>, or error is <<the Error thrown>>;
\* data.edges and data.rootNodes are not read.
fromDict(data) == addNodeDicts(EmptyDKG, data.nodes)

\* ------------------------------------------------------------------ VerifierAgent
RECURSIVE missingParentIssues(_, _, _)
\* Mutant of missingParentIssues: a parent counts as present only when it was
\* added before the node.
missingParentIssuesAddedLater(d, nodeId, parents) ==
    IF parents = <<>> THEN <<>>
    ELSE (IF ~(\E i, j \in 1..Len(d.keys) :
                   i < j /\ d.keys[i] = Head(parents) /\ d.keys[j] = nodeId)
          THEN <<[issue |-> "Node ${nodeId} references missing parent ${parentId}",
                  nodeId |-> nodeId, parentId |-> Head(parents)]>>
          ELSE <<>>)
         \o missingParentIssues(d, nodeId, Tail(parents))

missingParentIssues(d, nodeId, parents) ==
    IF parents = <<>> THEN <<>>
    ELSE (IF Head(parents) \notin DOMAIN d.nodes
          THEN <<[issue |-> "Node ${nodeId} references missing parent ${parentId}",
                  nodeId |-> nodeId, parentId |-> Head(parents)]>>
          ELSE <<>>)
         \o missingParentIssues(d, nodeId, Tail(parents))

RECURSIVE timestampIssues(_, _, _)
\* Mutant of timestampIssues: parent.ts >= node.ts instead of parent.ts > node.ts.
timestampIssuesNotAfter(d, nodeId, parents) ==
    IF parents = <<>> THEN <<>>
    ELSE (IF Head(parents) \in DOMAIN d.nodes /\ d.nodes[Head(parents)].ts >= d.nodes[nodeId].ts
          THEN <<[issue |-> "Node ${nodeId} has timestamp ${node.ts} before parent ${parentId} (${parent.ts})",
                  nodeId |-> nodeId, ts |-> d.nodes[nodeId].ts,
                  parentId |-> Head(parents), parentTs |-> d.nodes[Head(parents)].ts]>>
          ELSE <<>>)
         \o timestampIssues(d, nodeId, Tail(parents))

timestampIssues(d, nodeId, parents) ==
    IF parents = <<>> THEN <<>>
    ELSE (IF Head(parents) \in DOMAIN d.nodes /\ d.nodes[Head(parents)].ts > d.nodes[nodeId].ts
          THEN <<[issue |-> "Node ${nodeId} has timestamp ${node.ts} before parent ${parentId} (${parent.ts})",
                  nodeId |-> nodeId, ts |-> d.nodes[nodeId].ts,
                  parentId |-> Head(parents), parentTs |-> d.nodes[Head(parents)].ts]>>
          ELSE <<>>)
         \o timestampIssues(d, nodeId, Tail(parents))

RECURSIVE checkParentsExist(_, _)
checkParentsExist(d, ks) ==
    IF ks = <<>> THEN <<>>
    ELSE missingParentIssues(d, Head(ks), d.nodes[Head(ks)].parents)
         \o checkParentsExist(d, Tail(ks))

RECURSIVE checkTimestamps(_, _)
checkTimestamps(d, ks) ==
    IF ks = <<>> THEN <<>>
    ELSE timestampIssues(d, Head(ks), d.nodes[Head(ks)].parents)
         \o checkTimestamps(d, Tail(ks))

\* Mutant of checkCycles: the catch block swallows the error.
checkCyclesSilent(d) == <<>>

\* try { dkg.topologicalSort() } catch (error) { issues.push(...) }
checkCycles(d) ==
    LET sorted == topologicalSort(d)
    IN IF sorted.error # <<>>
       THEN <<[issue |-> "Cycle detected in DKG: ${error.message}", error |-> sorted.error[1]]>>
       ELSE <<>>

RECURSIVE edgeCountOf(_, _)
edgeCountOf(edgeMap, S) ==
    IF S = {} THEN 0
    ELSE LET k == CHOOSE x \in S : TRUE
         IN Len(edgeMap[k]) + edgeCountOf(edgeMap, S \ {k})

auditCausality(d) ==
    LET issues == checkParentsExist(d, d.keys) \o checkTimestamps(d, d.keys) \o checkCycles(d)
    IN [passed |-> Len(issues) = 0,
        issues |-> issues,
        nodeCount |-> Len(d.keys),
        edgeCount |-> edgeCountOf(d.edges, DOMAIN d.edges),
        rootNodeCount |-> Len(d.rootNodes)]

\* Frames the call stack holds before the engine throws RangeError.
StackLimit == 6

RangeError == [message |-> "Maximum call stack size exceeded"]

Max(a, b) == IF a > b THEN a ELSE b

Min(a, b) == IF a < b THEN a ELSE b

RECURSIVE computeNodeDepth(_, _, _)
RECURSIVE maxParentDepth(_, _, _, _)
computeNodeDepth(d, node, stack) ==
    IF stack = 0 THEN [depth |-> 0, error |-> <<RangeError>>]
    ELSE IF node.parents = <<>> THEN [depth |-> 1, error |-> <<>>]
    ELSE LET m == maxParentDepth(d, node.parents, 0, stack - 1)
         IN IF m.error # <<>> THEN m ELSE [depth |-> m.depth + 1, error |-> <<>>]

maxParentDepth(d, parents, acc, stack) ==
    IF parents = <<>> THEN [depth |-> acc, error |-> <<>>]
    ELSE IF Head(parents) \notin DOMAIN d.nodes
         THEN maxParentDepth(d, Tail(parents), acc, stack)
    ELSE LET r == computeNodeDepth(d, d.nodes[Head(parents)], stack)
         IN IF r.error # <<>> THEN r
            ELSE maxParentDepth(d, Tail(parents), Max(acc, r.depth), stack)

RECURSIVE totalDepthOf(_, _, _)
totalDepthOf(d, agentNodes, acc) ==
    IF agentNodes = <<>> THEN [depth |-> acc, error |-> <<>>]
    ELSE LET r == computeNodeDepth(d, d.nodes[Head(agentNodes)], StackLimit)
         IN IF r.error # <<>> THEN r
            ELSE totalDepthOf(d, Tail(agentNodes), acc + r.depth)

\* The five scores are whole numbers: Math.floor of each dimension.
computeMultiDimensionalScores(d, agentKey) ==
    LET isAgents(k) == agentKeyOf(d.nodes[k]) = agentKey
        agentNodes == SelectSeq(d.keys, isAgents)
        isRoot(k) == d.nodes[k].parents = <<>>
        hasArtifacts(k) == Len(d.nodes[k].artifactIds) > 0
        hasParents(k) == Len(d.nodes[k].parents) > 0
        initiative == Min(100, Len(SelectSeq(agentNodes, isRoot)) * 30
                              + Len(SelectSeq(agentNodes, hasArtifacts)) * 10)
        collaboration == Min(100, Len(SelectSeq(agentNodes, hasParents)) * 15)
        total == totalDepthOf(d, agentNodes, 0)
        reasoningDepth == Min(100, (total.depth * 20) \div Len(agentNodes))
    IN IF agentNodes = <<>> THEN [scores |-> <<0, 0, 0, 0, 0>>, error |-> <<>>]
       ELSE IF total.error # <<>> THEN [scores |-> <<>>, error |-> total.error]
       ELSE [scores |-> <<initiative, collaboration, reasoningDepth, 100, 100>>,
             error |-> <<>>]

computeDataHash(studio, epoch, threadRoot, evidenceRoot) ==
    keccak256(<<"abi", studio, epoch, ZeroHash, threadRoot, evidenceRoot, ZeroHash>>)

\* A hex string is its digest and whether it is written in upper case.
toLowerCase(hex) == [hex EXCEPT !.upper = FALSE]

\* download is the settled sdk.download promise: [kind |-> "rejects", error |-> e],
\* [kind |-> "null"] or [kind |-> "value", evidence |-> ev].
\* The try block: thrown = <<e>> when it throws e with `errors` pushed so far,
\* else the AuditResult it returns.
performCausalAuditTry(download, studioAddress) ==
    LET failed(errors, error) == [thrown |-> <<error>>, errors |-> errors]
    IN IF download.kind = "rejects" THEN failed(<<>>, download.error)
       ELSE IF download.kind = "null"
            THEN failed(<<>>, [message |-> "Failed to fetch evidence package"])
       ELSE
       LET evidence == download.evidence
           dkg == fromXMTPThread(evidence.xmtp_messages)
           root == computeThreadRoot(dkg)
       IN IF root.error # <<>> THEN failed(<<>>, root.error[1])
          ELSE
          LET threadRoot == [digest |-> root.value[1], upper |-> FALSE]
              expectedThreadRoot == evidence.thread_root
              errors == IF expectedThreadRoot # Undefined
                           /\ toLowerCase(threadRoot) # toLowerCase(expectedThreadRoot[1])
                        THEN <<[message |-> "Thread root mismatch: expected ${expectedThreadRoot}, got ${threadRoot}",
                                expected |-> expectedThreadRoot[1], got |-> threadRoot]>>
                        ELSE <<>>
              auditReport == auditCausality(dkg)
              agents == {agentKeyOf(dkg.nodes[k]) : k \in Range(dkg.keys)}
              scored == [a \in agents |-> computeMultiDimensionalScores(dkg, a)]
              weights == computeContributionWeights(dkg)
              dataHash == computeDataHash(studioAddress,
                              IF evidence.epoch = Undefined THEN 1 ELSE evidence.epoch[1],
                              threadRoot.digest,
                              IF evidence.evidence_root = Undefined THEN ZeroHash
                              ELSE evidence.evidence_root[1])
          IN IF \E a \in agents : scored[a].error # <<>>
             THEN failed(errors, (scored[CHOOSE a \in agents : scored[a].error # <<>>]).error[1])
             ELSE [thrown |-> <<>>,
                   result |-> [rejected |-> FALSE,
                               auditPassed |-> Len(errors) = 0 /\ auditReport.passed,
                               dataHash |-> dataHash,
                               scores |-> [a \in agents |-> scored[a].scores],
                               contributionWeights |-> weights,
                               dkg |-> <<dkg>>,
                               auditReport |-> auditReport,
                               errors |-> errors]]

\* Mutant of performCausalAudit: no catch block, the promise rejects.
performCausalAuditNoCatch(download, studioAddress) ==
    LET try == performCausalAuditTry(download, studioAddress)
    IN IF try.thrown # <<>>
       THEN [rejected |-> TRUE, error |-> try.thrown[1]]
       ELSE try.result

\* Mutant of performCausalAudit: the catch block does not record the error.
performCausalAuditNotRecording(download, studioAddress) ==
    LET try == performCausalAuditTry(download, studioAddress)
    IN IF try.thrown # <<>>
       THEN [rejected |-> FALSE,
             auditPassed |-> FALSE,
             dataHash |-> ZeroHash,
             scores |-> <<>>,
             contributionWeights |-> <<>>,
             dkg |-> Undefined,
             auditReport |-> [passed |-> FALSE, error |-> try.thrown[1]],
             errors |-> try.errors]
       ELSE try.result

\* The catch block turns whatever the try block throws into a failed AuditResult.
performCausalAudit(download, studioAddress) ==
    LET try == performCausalAuditTry(download, studioAddress)
    IN IF try.thrown # <<>>
       THEN [rejected |-> FALSE,
             auditPassed |-> FALSE,
             dataHash |-> ZeroHash,
             scores |-> <<>>,
             contributionWeights |-> <<>>,
             dkg |-> Undefined,
             auditReport |-> [passed |-> FALSE, error |-> try.thrown[1]],
             errors |-> Append(try.errors, try.thrown[1])]
       ELSE try.result

\* ------------------------------------------------------------------ state
VARIABLES nodes, keys, edges, rootNodes, nAdds, last

vars == <<nodes, keys, edges, rootNodes, nAdds, last>>

this == [nodes |-> nodes, keys |-> keys, edges |-> edges, rootNodes |-> rootNodes]

NoCall == [op |-> "none"]

\* Nodes offered to addNode in Spec: every parent list and timestamp.
ParentLists == {s \in SeqsUpTo(Ids, MaxParents) : NoDup(s)}

StructNodes ==
    {DKGNode([author |-> "A", sig |-> "s", ts |-> t, xmtpMsgId |-> i,
              artifactIds |-> <<>>, payloadHash |-> "p", parents |-> ps,
              vlc |-> Undefined, agentId |-> Undefined, content |-> Undefined,
              nodeType |-> Undefined, metadata |-> Undefined]) :
        t \in 1..MaxTs, i \in Ids, ps \in ParentLists}

Init ==
    /\ nodes = <<>>
    /\ keys = <<>>
    /\ edges = <<>>
    /\ rootNodes = <<>>
    /\ nAdds = 0
    /\ last = NoCall

\* addNode under a key the store does not hold yet.
AddNode(In) ==
    \E node \in {n \in In : n.xmtpMsgId \notin DOMAIN nodes} :
        LET d == addNode(this, node, "")
        IN /\ nAdds < MaxAdds
           /\ nodes' = d.nodes
           /\ keys' = d.keys
           /\ edges' = d.edges
           /\ rootNodes' = d.rootNodes
           /\ nAdds' = nAdds + 1
           /\ last' = NoCall

\* addNode under a key the store already holds (insert-or-replace).
ReplaceNode(In) ==
    \E node \in {n \in In : n.xmtpMsgId \in DOMAIN nodes} :
        LET d == addNode(this, node, "")
        IN /\ nAdds < MaxAdds
           /\ nodes' = d.nodes
           /\ keys' = d.keys
           /\ edges' = d.edges
           /\ rootNodes' = d.rootNodes
           /\ nAdds' = nAdds + 1
           /\ last' = NoCall

TopologicalSort ==
    /\ last' = [op |-> "topologicalSort", out |-> topologicalSort(this)]
    /\ UNCHANGED <<nodes, keys, edges, rootNodes, nAdds>>

\* Mutant of ComputeThreadRoot: the canonical hash sorts this.parents in place
\* (this.parents.sort() instead of [...this.parents].sort()).
ComputeThreadRootSortingInPlace ==
    /\ last' = [op |-> "computeThreadRoot", out |-> computeThreadRoot(this)]
    /\ nodes' = IF computeThreadRoot(this).error # <<>> THEN nodes
                ELSE [k \in DOMAIN nodes |->
                         [nodes[k] EXCEPT !.parents = SortStrings(nodes[k].parents)]]
    /\ UNCHANGED <<keys, edges, rootNodes, nAdds>>

ComputeThreadRoot ==
    /\ last' = [op |-> "computeThreadRoot", out |-> computeThreadRoot(this)]
    /\ UNCHANGED <<nodes, keys, edges, rootNodes, nAdds>>

AuditCausality ==
    /\ last' = [op |-> "auditCausality", out |-> auditCausality(this)]
    /\ UNCHANGED <<nodes, keys, edges, rootNodes, nAdds>>

\* The evidence package of the thread held in the store: its nodes exported in
\* key order, with the thread root its author claims (none, the empty thread's,
\* or the one computed, written in upper case).
exportedMessages == [i \in 1..Len(keys) |-> nodeToDict(nodes[keys[i]])]

ClaimedRoots ==
    {Undefined, <<[digest |-> ZeroHash, upper |-> FALSE]>>}
    \cup (IF computeThreadRoot(this).error = <<>>
          THEN {<<[digest |-> computeThreadRoot(this).value[1], upper |-> TRUE]>>}
          ELSE {})

Downloads ==
    {[kind |-> "rejects", error |-> [message |-> "storage backend error"]],
     [kind |-> "null"]}
    \cup {[kind |-> "value",
           evidence |-> [xmtp_messages |-> exportedMessages, thread_root |-> r,
                         epoch |-> Undefined, evidence_root |-> Undefined]] :
            r \in ClaimedRoots}

PerformCausalAudit ==
    \E download \in Downloads :
        /\ last' = [op |-> "performCausalAudit", download |-> download,
                    out |-> performCausalAudit(download, "studio")]
        /\ UNCHANGED <<nodes, keys, edges, rootNodes, nAdds>>

\* Build with pairwise distinct ids, then query.
Next(In) ==
    \/ AddNode(In)
    \/ TopologicalSort
    \/ ComputeThreadRoot
    \/ AuditCausality

Spec == Init /\ [][Next(StructNodes)]_vars

\* The verifier's audit of the evidence exported from the store.
NextAudit(In) ==
    \/ AddNode(In)
    \/ AuditCausality
    \/ PerformCausalAudit

SpecAudit == Init /\ [][NextAudit(StructNodes)]_vars

\* ------------------------------------------------------------------ canonical hash
\* Field values over an alphabet that holds the separator of the canonical
\* string: parent ids may be empty or contain '|'.
HashStrings == {"", "a", "b", "a|b"}

HashParentLists == {s \in SeqsUpTo(HashStrings, MaxParents) : NoDup(s)}

HashNodes ==
    {DKGNode([author |-> au, sig |-> "s", ts |-> t, xmtpMsgId |-> i,
              artifactIds |-> <<>>, payloadHash |-> ph, parents |-> ps,
              vlc |-> Undefined, agentId |-> Undefined, content |-> Undefined,
              nodeType |-> Undefined, metadata |-> Undefined]) :
        au \in {"A", "B"}, t \in 1..MaxTs, i \in {"a", "b"}, ph \in {"p", "q"},
        ps \in HashParentLists}

\* node.computeCanonicalHash() on a stored node.
ComputeCanonicalHash ==
    \E k \in DOMAIN nodes :
        /\ last' = [op |-> "computeCanonicalHash", key |-> k,
                    out |-> computeCanonicalHash(nodes[k])]
        /\ UNCHANGED <<nodes, keys, edges, rootNodes, nAdds>>

NextHash(In) ==
    \/ AddNode(In)
    \/ ComputeCanonicalHash
    \/ ComputeThreadRoot

SpecHash == Init /\ [][NextHash(HashNodes)]_vars

\* ------------------------------------------------------------------ unhashed fields
\* Values of the fields the canonical string leaves out.
OtherFields ==
    [sig : {"s", "t"}, artifactIds : {<<>>, <<"x">>}, vlc : {Undefined, <<"v">>},
     agentId : {Undefined, <<0>>, <<7>>}, content : {Undefined, <<"c">>},
     nodeType : {<<"message">>, <<"artifact">>}, metadata : {<<"{}">>, <<"{k}">>}]

PlainFields ==
    [sig |-> "s", artifactIds |-> <<>>, vlc |-> Undefined, agentId |-> Undefined,
     content |-> Undefined, nodeType |-> <<"message">>, metadata |-> <<"{}">>]

FilledFields ==
    [sig |-> "t", artifactIds |-> <<"x">>, vlc |-> <<"v">>, agentId |-> <<7>>,
     content |-> <<"c">>, nodeType |-> <<"artifact">>, metadata |-> <<"{k}">>]

\* Parent lists in one order each: the order plays no part in these fields.
SortedParentLists == {s \in ParentLists : s = SortStrings(s)}

FieldNodes ==
    {DKGNode([author |-> "A", sig |-> o.sig, ts |-> 1, xmtpMsgId |-> i,
              artifactIds |-> o.artifactIds, payloadHash |-> "p", parents |-> ps,
              vlc |-> o.vlc, agentId |-> o.agentId, content |-> o.content,
              nodeType |-> o.nodeType, metadata |-> o.metadata]) :
        i \in Ids, ps \in SortedParentLists, o \in {PlainFields, FilledFields}}

SpecFields == Init /\ [][NextHash(FieldNodes)]_vars

\* ------------------------------------------------------------------ attribution
\* Nodes of two authors without agent ids, and nodes whose agent id is absent,
\* zero or positive.
AttrNodes ==
    {DKGNode([author |-> au, sig |-> "s", ts |-> 1, xmtpMsgId |-> i,
              artifactIds |-> <<>>, payloadHash |-> "p", parents |-> ps,
              vlc |-> Undefined, agentId |-> Undefined, content |-> Undefined,
              nodeType |-> Undefined, metadata |-> Undefined]) :
        au \in {"A", "B"}, i \in Ids, ps \in SortedParentLists}

AgentProfiles ==
    {[author |-> "A", agentId |-> Undefined], [author |-> "B", agentId |-> Undefined],
     [author |-> "A", agentId |-> <<0>>], [author |-> "A", agentId |-> <<7>>]}

AgentNodes ==
    {DKGNode([author |-> pr.author, sig |-> "s", ts |-> 1, xmtpMsgId |-> i,
              artifactIds |-> <<>>, payloadHash |-> "p", parents |-> ps,
              vlc |-> Undefined, agentId |-> pr.agentId, content |-> Undefined,
              nodeType |-> Undefined, metadata |-> Undefined]) :
        pr \in AgentProfiles, i \in Ids, ps \in SeqsUpTo(Ids, 1)}

CountDescendants ==
    \E k \in DOMAIN nodes :
        /\ last' = [op |-> "countDescendants", key |-> k, out |-> countDescendants(this, k)]
        /\ UNCHANGED <<nodes, keys, edges, rootNodes, nAdds>>

ComputeContributionWeights ==
    /\ last' = [op |-> "computeContributionWeights", out |-> computeContributionWeights(this)]
    /\ UNCHANGED <<nodes, keys, edges, rootNodes, nAdds>>

NextAttr(In) ==
    \/ AddNode(In)
    \/ CountDescendants
    \/ ComputeContributionWeights

SpecAttr == Init /\ [][NextAttr(AttrNodes)]_vars

SpecAgent == Init /\ [][NextAttr(AgentNodes)]_vars

\* ------------------------------------------------------------------ tracer
\* Mutant of push: the entries are put at the front of the queue (depth first).
unshift(queue, items) == items \o queue

\* queue.push of the entries made in the loop over children.
push(queue, items) == queue \o items

\* The while loop of traceCausalChain; the value is the list of ids of the path
\* found, or <<>>.
RECURSIVE traceLoop(_, _, _, _)
traceLoop(d, queue, visited, toNodeId) ==
    IF queue = <<>> THEN <<>>
    ELSE LET nodeId == Head(queue).nodeId
             path == Head(queue).path
             visited1 == visited \cup {nodeId}
             children == getChildren(d, nodeId)
             unvisited(c) == c \notin visited1
             fresh == SelectSeq(children, unvisited)
             entries == [i \in 1..Len(fresh) |->
                            [nodeId |-> fresh[i], path |-> Append(path, fresh[i])]]
         IN IF nodeId = toNodeId THEN path
            ELSE IF nodeId \in visited THEN traceLoop(d, Tail(queue), visited, toNodeId)
            ELSE traceLoop(d, push(Tail(queue), entries), visited1, toNodeId)

\* path.map((id) => this.nodes.get(id)).filter(Boolean)
pathNodes(d, path) ==
    LET stored(id) == id \in DOMAIN d.nodes
        ids == SelectSeq(path, stored)
    IN [i \in 1..Len(ids) |-> d.nodes[ids[i]]]

\* Mutant of traceCausalChain: the search starts with an empty path.
traceCausalChainFromEmptyPath(d, fromNodeId, toNodeId) ==
    IF fromNodeId \notin DOMAIN d.nodes \/ toNodeId \notin DOMAIN d.nodes THEN <<>>
    ELSE pathNodes(d, traceLoop(d, <<[nodeId |-> fromNodeId, path |-> <<>>]>>, {}, toNodeId))

traceCausalChain(d, fromNodeId, toNodeId) ==
    IF fromNodeId \notin DOMAIN d.nodes \/ toNodeId \notin DOMAIN d.nodes THEN <<>>
    ELSE pathNodes(d, traceLoop(d, <<[nodeId |-> fromNodeId, path |-> <<fromNodeId>>]>>,
                                {}, toNodeId))

TraceNodes ==
    {DKGNode([author |-> "A", sig |-> "s", ts |-> 1, xmtpMsgId |-> i,
              artifactIds |-> <<>>, payloadHash |-> "p", parents |-> ps,
              vlc |-> Undefined, agentId |-> Undefined, content |-> Undefined,
              nodeType |-> Undefined, metadata |-> Undefined]) :
        i \in Ids, ps \in ParentLists}

TraceCausalChain ==
    \E fromNodeId \in Ids, toNodeId \in Ids :
        /\ last' = [op |-> "traceCausalChain", from |-> fromNodeId, to |-> toNodeId,
                    out |-> traceCausalChain(this, fromNodeId, toNodeId)]
        /\ UNCHANGED <<nodes, keys, edges, rootNodes, nAdds>>

NextTrace(In) ==
    \/ AddNode(In)
    \/ TraceCausalChain

SpecTrace == Init /\ [][NextTrace(TraceNodes)]_vars

\* ------------------------------------------------------------------ store
\* Nodes whose parent lists may name a parent twice.
StoreNodes ==
    {DKGNode([author |-> "A", sig |-> "s", ts |-> 1, xmtpMsgId |-> i,
              artifactIds |-> <<>>, payloadHash |-> "p", parents |-> ps,
              vlc |-> Undefined, agentId |-> Undefined, content |-> Undefined,
              nodeType |-> Undefined, metadata |-> Undefined]) :
        i \in Ids, ps \in SeqsUpTo(Ids, MaxParents)}

GetNode ==
    \E nodeId \in Ids :
        /\ last' = [op |-> "getNode", id |-> nodeId, out |-> getNode(this, nodeId)]
        /\ UNCHANGED <<nodes, keys, edges, rootNodes, nAdds>>

\* Mutant of GetChildren: a missing edge list is created on read.
GetChildrenCreatingEntry ==
    \E nodeId \in Ids :
        /\ last' = [op |-> "getChildren", id |-> nodeId, out |-> getChildren(this, nodeId)]
        /\ edges' = [k \in DOMAIN edges \cup {nodeId} |->
                        IF k \in DOMAIN edges THEN edges[k] ELSE <<>>]
        /\ UNCHANGED <<nodes, keys, rootNodes, nAdds>>

GetChildren ==
    \E nodeId \in Ids :
        /\ last' = [op |-> "getChildren", id |-> nodeId, out |-> getChildren(this, nodeId)]
        /\ UNCHANGED <<nodes, keys, edges, rootNodes, nAdds>>

NextStore(In) ==
    \/ AddNode(In)
    \/ GetNode
    \/ GetChildren

SpecStore == Init /\ [][NextStore(StoreNodes)]_vars

\* addNode calls that insert or replace.
NextReplace(In) ==
    \/ AddNode(In)
    \/ ReplaceNode(In)
    \/ GetChildren

SpecReplace == Init /\ [][NextReplace(TraceNodes)]_vars

\* ------------------------------------------------------------------ export and import
ToDict ==
    /\ last' = [op |-> "toDict", out |-> toDict(this)]
    /\ UNCHANGED <<nodes, keys, edges, rootNodes, nAdds>>

\* The export of the store, and copies of it with the edges removed, with a
\* root list naming every node, and with an agent id that is not a number.
Dictionaries ==
    LET data == toDict(this)
    IN {data,
        [data EXCEPT !.edges = <<>>],
        [data EXCEPT !.rootNodes = keys]}
       \cup (IF data.nodes = <<>> THEN {}
             ELSE {[data EXCEPT !.nodes[1].agent_id = <<"x">>]})

FromDict ==
    \E data \in Dictionaries :
        /\ last' = [op |-> "fromDict", data |-> data, out |-> fromDict(data)]
        /\ UNCHANGED <<nodes, keys, edges, rootNodes, nAdds>>

NextExport(In) ==
    \/ AddNode(In)
    \/ ToDict
    \/ FromDict

SpecExport == Init /\ [][NextExport(AgentNodes)]_vars

\* ------------------------------------------------------------------ critical nodes
MaxThreshold == 3

HubId == "h"

HubNode ==
    DKGNode([author |-> "A", sig |-> "s", ts |-> 1, xmtpMsgId |-> HubId,
             artifactIds |-> <<>>, payloadHash |-> "p", parents |-> <<>>,
             vlc |-> Undefined, agentId |-> Undefined, content |-> Undefined,
             nodeType |-> Undefined, metadata |-> Undefined])

\* Nodes that may name the hub, or each other, as parents.
HubChildNodes ==
    {DKGNode([author |-> "A", sig |-> "s", ts |-> 1, xmtpMsgId |-> i,
              artifactIds |-> <<>>, payloadHash |-> "p", parents |-> ps,
              vlc |-> Undefined, agentId |-> Undefined, content |-> Undefined,
              nodeType |-> Undefined, metadata |-> Undefined]) :
        i \in Ids, ps \in {s \in SeqsUpTo(Ids \cup {HubId}, MaxParents) : NoDup(s)}}

\* A store to which the hub has been added.
InitHub ==
    LET d == addNode(EmptyDKG, HubNode, "")
    IN /\ nodes = d.nodes
       /\ keys = d.keys
       /\ edges = d.edges
       /\ rootNodes = d.rootNodes
       /\ nAdds = 0
       /\ last = NoCall

FindCriticalNodes ==
    \E threshold \in 1..MaxThreshold :
        /\ last' = [op |-> "findCriticalNodes", threshold |-> threshold,
                    out |-> findCriticalNodes(this, threshold)]
        /\ UNCHANGED <<nodes, keys, edges, rootNodes, nAdds>>

NextCritical(In) ==
    \/ AddNode(In)
    \/ FindCriticalNodes

SpecCritical == InitHub /\ [][NextCritical(HubChildNodes)]_vars

\* ------------------------------------------------------------------ queries
NextQuery(In) ==
    \/ AddNode(In)
    \/ GetNode
    \/ GetChildren
    \/ TopologicalSort
    \/ ComputeThreadRoot
    \/ AuditCausality
    \/ ComputeContributionWeights
    \/ FindCriticalNodes
    \/ TraceCausalChain
    \/ ToDict

SpecQuery == Init /\ [][NextQuery(TraceNodes)]_vars

\* ------------------------------------------------------------------ insertion order
\* Nodes of author A at time 1 and of author B at time 2.
OrderNodes ==
    {DKGNode([author |-> pr.author, sig |-> "s", ts |-> pr.ts, xmtpMsgId |-> i,
              artifactIds |-> <<>>, payloadHash |-> "p", parents |-> ps,
              vlc |-> Undefined, agentId |-> Undefined, content |-> Undefined,
              nodeType |-> Undefined, metadata |-> Undefined]) :
        pr \in {[author |-> "A", ts |-> 1], [author |-> "B", ts |-> 2]},
        i \in Ids, ps \in SortedParentLists}

NextOrder(In) ==
    \/ AddNode(In)
    \/ AuditCausality
    \/ ComputeContributionWeights

SpecOrder == Init /\ [][NextOrder(OrderNodes)]_vars

\* ------------------------------------------------------------------ traversals, step by step
\* A traversal in progress keeps its local variables in `last`, with op
\* "running" and the method's name in `call`; when it returns or throws, `last`
\* becomes the record of the finished call.
Running(call) == last.op = "running" /\ last.call = call

\* The traversals read the store only and overwrite `last` when they start, so
\* each is started from the state the last addNode left.
Idle == last = NoCall

\* Parent lists of up to two ids, in one order each, that may name an id twice.
TermParentLists == {s \in SeqsUpTo(Ids, MaxParents) : s = SortStrings(s)}

TermNodes ==
    {DKGNode([author |-> "A", sig |-> "s", ts |-> 1, xmtpMsgId |-> i,
              artifactIds |-> <<>>, payloadHash |-> "p", parents |-> ps,
              vlc |-> Undefined, agentId |-> Undefined, content |-> Undefined,
              nodeType |-> Undefined, metadata |-> Undefined]) :
        i \in Ids, ps \in TermParentLists}

\* No method is running when addNode is called.
AddNodeIdle(In) == last.op # "running" /\ AddNode(In)

\* One iteration of the while loop of traceCausalChain.
traceIteration(d, w) ==
    LET returns(out) == [op |-> "traceCausalChain", from |-> w.from, to |-> w.to, out |-> out]
        nodeId == Head(w.queue).nodeId
        path == Head(w.queue).path
        visited1 == w.visited \cup {nodeId}
        unvisited(c) == c \notin visited1
        fresh == SelectSeq(getChildren(d, nodeId), unvisited)
        entries == [i \in 1..Len(fresh) |->
                       [nodeId |-> fresh[i], path |-> Append(path, fresh[i])]]
    IN IF w.queue = <<>> THEN returns(<<>>)
       ELSE IF nodeId = w.to THEN returns(pathNodes(d, path))
       ELSE IF nodeId \in w.visited THEN [w EXCEPT !.queue = Tail(@)]
       ELSE [w EXCEPT !.queue = push(Tail(@), entries), !.visited = visited1]

StartTraceCausalChain ==
    /\ Idle
    /\ \E fromNodeId \in Ids, toNodeId \in Ids :
           last' = IF fromNodeId \notin DOMAIN nodes \/ toNodeId \notin DOMAIN nodes
                   THEN [op |-> "traceCausalChain", from |-> fromNodeId, to |-> toNodeId,
                         out |-> <<>>]
                   ELSE [op |-> "running", call |-> "traceCausalChain",
                         from |-> fromNodeId, to |-> toNodeId,
                         queue |-> <<[nodeId |-> fromNodeId, path |-> <<fromNodeId>>]>>,
                         visited |-> {}]
    /\ UNCHANGED <<nodes, keys, edges, rootNodes, nAdds>>

StepTraceCausalChain ==
    /\ Running("traceCausalChain")
    /\ last' = traceIteration(this, last)
    /\ UNCHANGED <<nodes, keys, edges, rootNodes, nAdds>>

\* The frame of a call count(id) that has passed the visited test.
countFrame(d, id) ==
    [id |-> id, rest |-> getChildren(d, id), total |-> Len(getChildren(d, id))]

\* One step of countDescendants: the innermost call of count takes its next
\* child, or returns its total to its caller.
countStep(d, w) ==
    LET n == Len(w.stack)
        top == w.stack[n]
        child == Head(top.rest)
        advanced == [w EXCEPT !.stack[n].rest = Tail(@)]
    IN IF top.rest = <<>>
       THEN IF n = 1 THEN [op |-> "countDescendants", key |-> w.key, out |-> top.total]
            ELSE [w EXCEPT !.stack = [SubSeq(w.stack, 1, n - 1) EXCEPT
                                          ![n - 1].total = @ + top.total]]
       ELSE IF child \in w.visited THEN advanced
       ELSE [advanced EXCEPT !.visited = @ \cup {child},
                             !.stack = Append(@, countFrame(d, child))]

StartCountDescendants ==
    /\ Idle
    /\ \E k \in DOMAIN nodes :
           last' = [op |-> "running", call |-> "countDescendants", key |-> k,
                    visited |-> {k}, stack |-> <<countFrame(this, k)>>]
    /\ UNCHANGED <<nodes, keys, edges, rootNodes, nAdds>>

StepCountDescendants ==
    /\ Running("countDescendants")
    /\ last' = countStep(this, last)
    /\ UNCHANGED <<nodes, keys, edges, rootNodes, nAdds>>

\* One step of topologicalSort: the loop over the keys calls visit, or the
\* innermost call of visit takes its next parent, or finishes its node.
sortStep(d, w) ==
    LET throws(e) == [op |-> "topologicalSort",
                      out |-> [result |-> w.result, error |-> <<e>>]]
        callVisit(w1, nodeId) ==
            IF nodeId \in w1.visiting THEN throws(CycleError(nodeId))
            ELSE IF nodeId \in w1.visited THEN w1
            ELSE IF nodeId \notin DOMAIN d.nodes THEN throws(NotFoundError(nodeId))
            ELSE [w1 EXCEPT !.visiting = @ \cup {nodeId},
                            !.stack = Append(@, [nodeId |-> nodeId,
                                                 rest |-> d.nodes[nodeId].parents])]
        n == Len(w.stack)
        top == w.stack[n]
    IN IF w.stack = <<>>
       THEN IF w.i > Len(d.keys)
            THEN [op |-> "topologicalSort", out |-> [result |-> w.result, error |-> <<>>]]
            ELSE IF d.keys[w.i] \in w.visited THEN [w EXCEPT !.i = @ + 1]
            ELSE callVisit([w EXCEPT !.i = @ + 1], d.keys[w.i])
       ELSE IF top.rest = <<>>
            THEN [w EXCEPT !.visiting = @ \ {top.nodeId},
                           !.visited = @ \cup {top.nodeId},
                           !.result = Append(@, top.nodeId),
                           !.stack = SubSeq(@, 1, n - 1)]
            ELSE callVisit([w EXCEPT !.stack[n].rest = Tail(@)], Head(top.rest))

StartTopologicalSort ==
    /\ Idle
    /\ last' = [op |-> "running", call |-> "topologicalSort", i |-> 1, stack |-> <<>>,
                visited |-> {}, visiting |-> {}, result |-> <<>>]
    /\ UNCHANGED <<nodes, keys, edges, rootNodes, nAdds>>

StepTopologicalSort ==
    /\ Running("topologicalSort")
    /\ last' = sortStep(this, last)
    /\ UNCHANGED <<nodes, keys, edges, rootNodes, nAdds>>

\* A call of countDescendants made by another traversal, run by the steps of
\* countStep: `count` holds the call in progress, and `returned` its result.
callCount(d, w, k) ==
    IF w.count = <<>>
    THEN [w EXCEPT !.count = <<[op |-> "running", call |-> "countDescendants", key |-> k,
                                visited |-> {k}, stack |-> <<countFrame(d, k)>>]>>]
    ELSE LET c == countStep(d, w.count[1])
         IN IF c.op = "running" THEN [w EXCEPT !.count = <<c>>]
            ELSE [w EXCEPT !.count = <<>>, !.returned = <<c.out>>]

\* One step of computeContributionWeights: a step of the call of
\* countDescendants in the loop over the nodes, the addition that follows the
\* call, or the normalisation after the loop.
weightsStep(d, w) ==
    LET k == d.keys[w.i]
        agentKey == agentKeyOf(d.nodes[k])
        current == IF agentKey \in DOMAIN w.acc THEN w.acc[agentKey] ELSE 0
        RECURSIVE Total(_)
        Total(S) == IF S = {} THEN 0
                    ELSE LET a == CHOOSE x \in S : TRUE IN w.acc[a] + Total(S \ {a})
    IN IF w.i > Len(d.keys)
       THEN [op |-> "computeContributionWeights",
             out |-> [a \in DOMAIN w.acc |->
                         [num |-> w.acc[a], den |-> Total(DOMAIN w.acc)]]]
       ELSE IF w.returned = <<>> THEN callCount(d, w, k)
       ELSE [w EXCEPT !.i = @ + 1,
                      !.returned = <<>>,
                      !.acc = [a \in DOMAIN w.acc \cup {agentKey} |->
                                  IF a = agentKey
                                  THEN current + 10 + w.returned[1]
                                  ELSE w.acc[a]]]

StartComputeContributionWeights ==
    /\ Idle
    /\ last' = [op |-> "running", call |-> "computeContributionWeights", i |-> 1,
                acc |-> <<>>, count |-> <<>>, returned |-> <<>>]
    /\ UNCHANGED <<nodes, keys, edges, rootNodes, nAdds>>

StepComputeContributionWeights ==
    /\ Running("computeContributionWeights")
    /\ last' = weightsStep(this, last)
    /\ UNCHANGED <<nodes, keys, edges, rootNodes, nAdds>>

\* critical.sort(...) with the counts the loop obtained: countDescendants reads
\* the store only, so the comparator's calls return what the loop's calls did.
RECURSIVE insertByCount(_, _, _)
insertByCount(counts, s, x) ==
    IF s = <<>> THEN <<x>>
    ELSE IF counts[Head(s)] < counts[x] THEN <<x>> \o s
    ELSE <<Head(s)>> \o insertByCount(counts, Tail(s), x)

RECURSIVE sortByCount(_, _)
sortByCount(counts, s) ==
    IF s = <<>> THEN <<>>
    ELSE insertByCount(counts, sortByCount(counts, SubSeq(s, 1, Len(s) - 1)), s[Len(s)])

\* One step of findCriticalNodes: a step of the call of countDescendants in the
\* loop over the nodes, the test that follows the call, or the sort after the
\* loop.
criticalStep(d, w) ==
    LET k == d.keys[w.i]
    IN IF w.i > Len(d.keys)
       THEN [op |-> "findCriticalNodes", threshold |-> w.threshold,
             out |-> sortByCount(w.counts, w.critical)]
       ELSE IF w.returned = <<>> THEN callCount(d, w, k)
       ELSE [w EXCEPT !.i = @ + 1,
                      !.returned = <<>>,
                      !.counts = (k :> w.returned[1]) @@ @,
                      !.critical = IF w.returned[1] >= w.threshold
                                   THEN Append(@, k) ELSE @]

StartFindCriticalNodes ==
    /\ Idle
    /\ \E threshold \in 1..MaxThreshold :
           last' = [op |-> "running", call |-> "findCriticalNodes",
                    threshold |-> threshold, i |-> 1, critical |-> <<>>,
                    counts |-> <<>>, count |-> <<>>, returned |-> <<>>]
    /\ UNCHANGED <<nodes, keys, edges, rootNodes, nAdds>>

StepFindCriticalNodes ==
    /\ Running("findCriticalNodes")
    /\ last' = criticalStep(this, last)
    /\ UNCHANGED <<nodes, keys, edges, rootNodes, nAdds>>

\* computeThreadRoot up to its while loop (the topological sort taken whole).
StartComputeThreadRoot ==
    /\ Idle
    /\ LET sorted == topologicalSort(this)
           hashes == [i \in 1..Len(sorted.result) |->
                         computeCanonicalHash(nodes[sorted.result[i]])]
           returns(out) == [op |-> "computeThreadRoot", out |-> out]
       IN last' = IF sorted.error # <<>>
                  THEN returns([value |-> <<>>, error |-> sorted.error])
                  ELSE IF Len(hashes) = 0
                  THEN returns([value |-> <<ZeroHash>>, error |-> <<>>])
                  ELSE IF Len(hashes) = 1
                  THEN returns([value |-> <<hashes[1]>>, error |-> <<>>])
                  ELSE [op |-> "running", call |-> "computeThreadRoot", current |-> hashes]
    /\ UNCHANGED <<nodes, keys, edges, rootNodes, nAdds>>

\* One round of the while loop of computeThreadRoot, or the return after it.
StepComputeThreadRoot ==
    /\ Running("computeThreadRoot")
    /\ last' = IF Len(last.current) > 1
               THEN [last EXCEPT !.current = hashRound(@)]
               ELSE [op |-> "computeThreadRoot",
                     out |-> [value |-> <<last.current[1]>>, error |-> <<>>]]
    /\ UNCHANGED <<nodes, keys, edges, rootNodes, nAdds>>

Step ==
    \/ StepTopologicalSort
    \/ StepCountDescendants
    \/ StepComputeContributionWeights
    \/ StepFindCriticalNodes
    \/ StepTraceCausalChain
    \/ StepComputeThreadRoot

NextTerm(In) ==
    \/ AddNodeIdle(In)
    \/ StartTopologicalSort
    \/ StartCountDescendants
    \/ StartComputeContributionWeights
    \/ StartFindCriticalNodes
    \/ StartTraceCausalChain
    \/ StartComputeThreadRoot
    \/ Step

\* A method that has been called keeps running until it returns or throws.
SpecTerm == Init /\ [][NextTerm(TermNodes)]_vars /\ WF_vars(Step)

\* ------------------------------------------------------------------ graph vocabulary
\* The stored parents of a stored node, and the parent relation's closure.
StoredParents(d, k) == Range(d.nodes[k].parents) \cap DOMAIN d.nodes

RECURSIVE ParentClosure(_, _)
ParentClosure(d, S) ==
    LET T == S \cup UNION {StoredParents(d, x) : x \in S}
    IN IF T = S THEN S ELSE ParentClosure(d, T)

Ancestors(d, k) == ParentClosure(d, StoredParents(d, k))

OnCycle(d, k) == k \in DOMAIN d.nodes /\ k \in Ancestors(d, k)

Acyclic(d) == \A k \in DOMAIN d.nodes : ~OnCycle(d, k)

Closed(d) == \A k \in DOMAIN d.nodes : Range(d.nodes[k].parents) \subseteq DOMAIN d.nodes

Monotone(d) ==
    \A k \in DOMAIN d.nodes : \A p \in StoredParents(d, k) : d.nodes[p].ts <= d.nodes[k].ts

IndexOf(s, x) == CHOOSE i \in 1..Len(s) : s[i] = x

CycleMessage == "Cycle detected in DKG at node ${nodeId}"

\* ------------------------------------------------------------------ C1
\* C1: on a closed acyclic graph topologicalSort returns every stored node
\* exactly once, each at a strictly greater index than all its declared parents.
C1_TopologicalValidity ==
    (last.op = "topologicalSort" /\ Closed(this) /\ Acyclic(this)) =>
        LET r == last.out.result
        IN /\ last.out.error = <<>>
           /\ Len(r) = Cardinality(DOMAIN nodes)
           /\ Range(r) = DOMAIN nodes
           /\ \A i \in 1..Len(r) : \A p \in Range(nodes[r[i]].parents) :
                  \E j \in 1..(i - 1) : r[j] = p

\* A three-node closed acyclic graph with a two-parent node, whose sorted order
\* differs from the insertion order.
C1_Witness ==
    /\ last.op = "topologicalSort"
    /\ Closed(this) /\ Acyclic(this)
    /\ Len(keys) = 3
    /\ \E k \in DOMAIN nodes : Len(nodes[k].parents) = 2
    /\ last.out.error = <<>>
    /\ last.out.result # keys

\* ------------------------------------------------------------------ C2
\* C2: on a closed graph whose parent relation has a cycle, topologicalSort
\* throws the 'Cycle detected' error naming a node that lies on a cycle, and
\* the audit of that graph reports passed = false.
C2_CycleDetected ==
    /\ (last.op = "topologicalSort" /\ Closed(this) /\ ~Acyclic(this)) =>
           /\ last.out.error # <<>>
           /\ last.out.error[1].message = CycleMessage
           /\ OnCycle(this, last.out.error[1].nodeId)
    /\ (last.op = "auditCausality" /\ Closed(this) /\ ~Acyclic(this)) =>
           last.out.passed = FALSE

\* The sort has thrown on a closed graph with a two-node cycle and a third node
\* that is not on it.
C2_Witness ==
    /\ last.op = "topologicalSort"
    /\ Closed(this)
    /\ Len(keys) = 3
    /\ \E x, y \in DOMAIN nodes :
           x # y /\ x \in Range(nodes[y].parents) /\ y \in Range(nodes[x].parents)
    /\ \E z \in DOMAIN nodes : ~OnCycle(this, z)
    /\ last.out.error # <<>>

MissingParentText == "Node ${nodeId} references missing parent ${parentId}"

TimestampText ==
    "Node ${nodeId} has timestamp ${node.ts} before parent ${parentId} (${parent.ts})"

CycleIssueText == "Cycle detected in DKG: ${error.message}"

NotFoundMessage == "Node ${nodeId} not found"

IsMissingIssue(i, k, p) == i.issue = MissingParentText /\ i.nodeId = k /\ i.parentId = p

IsTimestampIssue(i, k, p) == i.issue = TimestampText /\ i.nodeId = k /\ i.parentId = p

NumMissingIssues(issues, k, p) ==
    Cardinality({n \in 1..Len(issues) : IsMissingIssue(issues[n], k, p)})

NumTimestampIssues(issues, k, p) ==
    Cardinality({n \in 1..Len(issues) : IsTimestampIssue(issues[n], k, p)})

NumCycleIssues(issues) ==
    Cardinality({n \in 1..Len(issues) : issues[n].issue = CycleIssueText})

C4_AuditorNeverThrows ==
    /\ last.op = "auditCausality" =>
           /\ DOMAIN last.out = {"passed", "issues", "nodeCount", "edgeCount", "rootNodeCount"}
           /\ LET sorted == topologicalSort(this)
              IN sorted.error # <<>> =>
                     \E n \in 1..Len(last.out.issues) :
                         /\ last.out.issues[n].issue = CycleIssueText
                         /\ last.out.issues[n].error = sorted.error[1]
    /\ last.op = "performCausalAudit" =>
           /\ last.out.rejected = FALSE
           /\ {"auditPassed", "dataHash", "scores", "contributionWeights",
               "auditReport", "errors"} \subseteq DOMAIN last.out
           /\ last.download.kind = "value" =>
                  LET sorted == topologicalSort(fromXMTPThread(last.download.evidence.xmtp_messages))
                  IN sorted.error # <<>> =>
                         /\ last.out.auditPassed = FALSE
                         /\ last.out.errors = <<sorted.error[1]>>
                         /\ last.out.auditReport.error = sorted.error[1]

\* performCausalAudit has resolved for evidence holding a self-parent, a cycle
\* and a dangling parent id.
C4_Witness ==
    /\ last.op = "performCausalAudit"
    /\ last.download.kind = "value"
    /\ Len(keys) = 2
    /\ ~Closed(this)
    /\ \E k \in DOMAIN nodes : k \in Range(nodes[k].parents)
    /\ \E x, y \in DOMAIN nodes : x # y /\ x \in Ancestors(this, y) /\ y \in Ancestors(this, x)
    /\ last.out.rejected = FALSE
    /\ Len(last.out.errors) = 1

C6_CycleIssueIffCycle ==
    last.op = "auditCausality" =>
        NumCycleIssues(last.out.issues) = (IF Acyclic(this) THEN 0 ELSE 1)

\* ------------------------------------------------------------------ C7
\* The ids an Error's message is built from.
ErrorIds(error) == {error.nodeId}

\* C7 (as claimed): when a stored node declares a parent id that is not stored
\* and there is no cycle, topologicalSort throws a missing-parent error,
\* distinct from the cycle error, that identifies the child and the missing parent.
C7_MissingParentError ==
    (last.op = "topologicalSort" /\ ~Closed(this) /\ Acyclic(this)) =>
        /\ last.out.error # <<>>
        /\ last.out.error[1].message # CycleMessage
        /\ \E c \in DOMAIN nodes : \E p \in Range(nodes[c].parents) \ DOMAIN nodes :
               ErrorIds(last.out.error[1]) = {c, p}

\* ------------------------------------------------------------------ C8
\* The reference reduction, by position: element i of the next round is the hash
\* of elements 2i-1 and 2i, or element 2i-1 itself when it has no partner.
RefRound(hs) ==
    [i \in 1..((Len(hs) + 1) \div 2) |->
        IF 2 * i <= Len(hs) THEN keccak256(concat(hs[2 * i - 1], hs[2 * i]))
        ELSE hs[2 * i - 1]]

RECURSIVE RefReduce(_)
RefReduce(hs) == IF Len(hs) = 1 THEN hs[1] ELSE RefReduce(RefRound(hs))

RefRoot(hs) == IF Len(hs) = 0 THEN ZeroHash ELSE RefReduce(hs)

\* The canonical hashes of the stored nodes in topological order.
SortedHashes(d) ==
    LET order == topologicalSort(d).result
    IN [i \in 1..Len(order) |-> computeCanonicalHash(d.nodes[order[i]])]

\* C8: on a closed acyclic graph computeThreadRoot returns the reference
\* reduction of the topologically ordered node hashes: the zero digest for no
\* node, the node's hash for one, H(h1,h2) for two, H(H(h1,h2),h3) for three.
C8_ThreadRootReduction ==
    (last.op = "computeThreadRoot" /\ Closed(this) /\ Acyclic(this)) =>
        LET h == SortedHashes(this)
        IN /\ last.out.error = <<>>
           /\ last.out.value = <<RefRoot(h)>>
           /\ Len(h) = 0 => last.out.value = <<ZeroHash>>
           /\ Len(h) = 1 => last.out.value = <<h[1]>>
           /\ Len(h) = 2 => last.out.value = <<keccak256(concat(h[1], h[2]))>>
           /\ Len(h) = 3 =>
                  last.out.value = <<keccak256(concat(keccak256(concat(h[1], h[2])), h[3]))>>

\* The root of a three-node chain has been computed.
C8_Witness ==
    /\ last.op = "computeThreadRoot"
    /\ Closed(this) /\ Acyclic(this)
    /\ Len(keys) = 3
    /\ \E k \in DOMAIN nodes : \E p \in StoredParents(this, k) : StoredParents(this, p) # {}
    /\ last.out.error = <<>>

\* ------------------------------------------------------------------ C9
KeyOrders(s) ==
    {p \in [1..Len(s) -> Range(s)] : \A i, j \in 1..Len(s) : i # j => p[i] # p[j]}

RECURSIVE Build(_, _)
Build(d, nodeSeq) ==
    IF nodeSeq = <<>> THEN d ELSE Build(addNode(d, Head(nodeSeq), ""), Tail(nodeSeq))

\* The store built by adding the nodes of d in the key order `order`.
Rebuilt(d, order) == Build(EmptyDKG, [i \in 1..Len(order) |-> d.nodes[order[i]]])

\* C9 (as claimed): the thread root of a store equals the thread root of every
\* store built from the same nodes by addNode calls in another order.
C9_RootInsertionOrderIndependent ==
    last.op = "computeThreadRoot" =>
        \A order \in KeyOrders(keys) :
            computeThreadRoot(Rebuilt(this, order)) = last.out

\* ------------------------------------------------------------------ C10
\* C10: a step that is a read operation leaves the value computeThreadRoot
\* returns unchanged, and a computeThreadRoot step returns that value; hence any
\* number of calls with only reads in between return the same value.
C10_RootIdempotent ==
    [][last'.op # "none" =>
           /\ computeThreadRoot(this') = computeThreadRoot(this)
           /\ last'.op = "computeThreadRoot" => last'.out = computeThreadRoot(this)]_vars

\* A root has been computed for a graph holding a parent list that is not in
\* sorted order.
C10_Witness ==
    /\ last.op = "computeThreadRoot"
    /\ last.out.error = <<>>
    /\ \E k \in DOMAIN nodes :
           Len(nodes[k].parents) = 2 /\ nodes[k].parents # SortStrings(nodes[k].parents)

\* ------------------------------------------------------------------ C11
\* The key a step has just inserted at the end of the store's key list.
AddedKey == keys'[Len(keys')]

\* C11: a step that adds a node under a new id, with all its parents already
\* stored, to a closed acyclic graph changes the value computeThreadRoot
\* returns (the hash being injective).
C11_AddChangesRoot ==
    [][(/\ Len(keys') = Len(keys) + 1
        /\ Closed(this) /\ Acyclic(this)
        /\ Range(nodes'[AddedKey].parents) \subseteq DOMAIN nodes) =>
           /\ computeThreadRoot(this).error = <<>>
           /\ computeThreadRoot(this').error = <<>>
           /\ computeThreadRoot(this').value # computeThreadRoot(this).value]_vars

\* A third node, with two stored parents, has just been added to a closed
\* acyclic graph of two nodes.
C11_Witness ==
    /\ last = NoCall
    /\ Len(keys) = 3
    /\ Closed(this) /\ Acyclic(this)
    /\ Len(nodes[keys[3]].parents) = 2
    /\ Range(nodes[keys[3]].parents) = {keys[1], keys[2]}

\* ------------------------------------------------------------------ C12
\* C12: the canonical hash returned for a node equals the canonical hash of
\* every node that differs from it only in the order of its parent list, and
\* hashing the node again returns the same digest.
C12_HashParentOrderIndependent ==
    last.op = "computeCanonicalHash" =>
        LET node == nodes[last.key]
        IN /\ \A ps \in KeyOrders(node.parents) :
                  computeCanonicalHash([node EXCEPT !.parents = ps]) = last.out
           /\ computeCanonicalHash(node) = last.out

\* The hash of a node whose two parents are stored in descending order.
C12_Witness ==
    /\ last.op = "computeCanonicalHash"
    /\ Len(nodes[last.key].parents) = 2
    /\ nodes[last.key].parents # SortStrings(nodes[last.key].parents)

\* ------------------------------------------------------------------ C13
\* Two nodes differ in a hashed field: author, timestamp, id, payload
\* fingerprint or parent set.
HashedFieldsDiffer(m, n) ==
    \/ m.author # n.author
    \/ m.ts # n.ts
    \/ m.xmtpMsgId # n.xmtpMsgId
    \/ m.payloadHash # n.payloadHash
    \/ Range(m.parents) # Range(n.parents)

\* C13 (as claimed): the canonical string of the hashed node differs from the
\* canonical string of every node that differs from it in a hashed field.
C13_SerializationUnambiguous ==
    last.op = "computeCanonicalHash" =>
        \A m \in HashNodes :
            HashedFieldsDiffer(m, nodes[last.key]) =>
                Canonical(m) # Canonical(nodes[last.key])

\* ------------------------------------------------------------------ C14
\* The node with its unhashed fields replaced by those of o, and the store with
\* every node's unhashed fields replaced.
WithOther(node, o) ==
    [node EXCEPT !.sig = o.sig, !.artifactIds = o.artifactIds, !.vlc = o.vlc,
                 !.agentId = o.agentId, !.content = o.content,
                 !.nodeType = o.nodeType, !.metadata = o.metadata]

WithOtherAll(d, o) ==
    [d EXCEPT !.nodes = [k \in DOMAIN d.nodes |-> WithOther(d.nodes[k], o)]]

\* C14: the canonical hash returned for a node is the hash of every node that
\* agrees with it on author, timestamp, id, payload fingerprint and parents,
\* whatever its signature, artifact references, agent reference, vlc, content,
\* node type and metadata; and the thread root returned for a graph is the
\* thread root of the graph with those fields reset, or filled, in every node.
C14_HashIgnoresOtherFields ==
    /\ last.op = "computeCanonicalHash" =>
           \A o \in OtherFields :
               computeCanonicalHash(WithOther(nodes[last.key], o)) = last.out
    /\ last.op = "computeThreadRoot" =>
           /\ computeThreadRoot(WithOtherAll(this, PlainFields)) = last.out
           /\ computeThreadRoot(WithOtherAll(this, FilledFields)) = last.out

\* The root of a three-node graph in which one node carries a signature, agent
\* reference, content and metadata that another node lacks.
C14_Witness ==
    /\ last.op = "computeThreadRoot"
    /\ last.out.error = <<>>
    /\ Len(keys) = 3
    /\ \E j, k \in DOMAIN nodes :
           /\ nodes[j].agentId = <<7>> /\ nodes[j].sig = "t"
           /\ nodes[k].agentId = Undefined /\ nodes[k].sig = "s"
           /\ j \in Range(nodes[k].parents)

\* ------------------------------------------------------------------ C15
\* The stored nodes reachable from the nodes of S by zero or more forward edges.
StoredChildren(d, k) == Range(getChildren(d, k)) \cap DOMAIN d.nodes

RECURSIVE ChildClosure(_, _)
ChildClosure(d, S) ==
    LET T == S \cup UNION {StoredChildren(d, x) : x \in S}
    IN IF T = S THEN S ELSE ChildClosure(d, T)

\* The distinct stored nodes reachable from k by one or more forward edges, k
\* itself not counted.
Descendants(d, k) == ChildClosure(d, StoredChildren(d, k)) \ {k}

\* C15 (as claimed, on closed acyclic graphs): countDescendants returns the
\* number of distinct descendants of the node.
C15_DescendantCountDistinct ==
    (last.op = "countDescendants" /\ Closed(this) /\ Acyclic(this)) =>
        last.out = Cardinality(Descendants(this, last.key))

\* ------------------------------------------------------------------ C16
RECURSIVE SumNum(_, _)
SumNum(w, S) ==
    IF S = {} THEN 0
    ELSE LET a == CHOOSE x \in S : TRUE IN w[a].num + SumNum(w, S \ {a})

\* C16: computeContributionWeights returns one weight per distinct author key of
\* the stored nodes; in a non-empty graph each weight lies in [0,1] and the
\* weights sum to exactly 1; for the empty graph the mapping is empty.
C16_WeightsSumToOne ==
    last.op = "computeContributionWeights" =>
        LET w == last.out
        IN /\ DOMAIN w = {agentKeyOf(nodes[k]) : k \in DOMAIN nodes}
           /\ \A a \in DOMAIN w :
                  w[a].den > 0 /\ 0 <= w[a].num /\ w[a].num <= w[a].den
           /\ \A a, b \in DOMAIN w : w[a].den = w[b].den
           /\ \A a \in DOMAIN w : SumNum(w, DOMAIN w) = w[a].den
           /\ nodes = <<>> => w = <<>>

\* Weights of a three-node graph with edges, shared by three author keys.
C16_Witness ==
    /\ last.op = "computeContributionWeights"
    /\ Len(keys) = 3
    /\ edges # <<>>
    /\ Cardinality(DOMAIN last.out) = 3

\* ------------------------------------------------------------------ C17
\* Ten times the sum of 1 + 0.1 * countDescendants(k) over the keys in S.
RECURSIVE RawSum(_, _)
RawSum(d, S) ==
    IF S = {} THEN 0
    ELSE LET k == CHOOSE x \in S : TRUE
         IN 10 + countDescendants(d, k) + RawSum(d, S \ {k})

NodesOfKey(d, a) == {k \in DOMAIN d.nodes : agentKeyOf(d.nodes[k]) = a}

\* The chain root(A) -> mid(B) -> leaf(A).
IsChainABA(d) ==
    /\ Len(d.keys) = 3
    /\ d.nodes[d.keys[1]].parents = <<>> /\ d.nodes[d.keys[1]].author = "A"
    /\ d.nodes[d.keys[2]].parents = <<d.keys[1]>> /\ d.nodes[d.keys[2]].author = "B"
    /\ d.nodes[d.keys[3]].parents = <<d.keys[2]>> /\ d.nodes[d.keys[3]].author = "A"

\* C17: the weight of each author key is the sum of 1 + 0.1 * descendantCount
\* over the key's nodes divided by the same sum over all nodes, hence strictly
\* positive for every key that owns a node; in the chain root(A) -> mid(B) ->
\* leaf(A) the weight of A is strictly greater than the weight of B.
C17_WeightFormula ==
    last.op = "computeContributionWeights" =>
        LET w == last.out
        IN /\ \A k \in DOMAIN nodes :
                  LET a == agentKeyOf(nodes[k])
                  IN /\ a \in DOMAIN w
                     /\ w[a].den > 0 /\ w[a].num > 0
                     /\ w[a].num * RawSum(this, DOMAIN nodes)
                            = RawSum(this, NodesOfKey(this, a)) * w[a].den
           /\ IsChainABA(this) => w["A"].num * w["B"].den > w["B"].num * w["A"].den

\* The weights of the chain root(A) -> mid(B) -> leaf(A).
C17_Witness ==
    /\ last.op = "computeContributionWeights"
    /\ IsChainABA(this)

\* ------------------------------------------------------------------ C18
\* The attribution key the specification gives a node: its agent reference
\* whenever present, its author otherwise.
AgentRefKey(node) ==
    IF node.agentId # Undefined THEN ToString(node.agentId[1]) ELSE node.author

NodesOfAgentRef(d, a) == {k \in DOMAIN d.nodes : AgentRefKey(d.nodes[k]) = a}

\* C18 (as claimed): the weights are grouped by agent reference where present:
\* the mapping's keys are the nodes' agent-reference keys, each weight is the
\* share of the nodes with that key, and the scores computed for the agent id
\* of a node count that node.
C18_GroupedByAgentRef ==
    last.op = "computeContributionWeights" =>
        LET w == last.out
        IN /\ DOMAIN w = {AgentRefKey(nodes[k]) : k \in DOMAIN nodes}
           /\ \A a \in DOMAIN w :
                  w[a].num * RawSum(this, DOMAIN nodes)
                      = RawSum(this, NodesOfAgentRef(this, a)) * w[a].den
           /\ \A k \in DOMAIN nodes :
                  nodes[k].agentId # Undefined =>
                      computeMultiDimensionalScores(this, ToString(nodes[k].agentId[1])).scores
                          # <<0, 0, 0, 0, 0>>

\* ------------------------------------------------------------------ C19
\* to is reachable from from along forward edges (a stored node reaches itself
\* by the path of no edge).
Reaches(d, from, to) == to \in ChildClosure(d, {from})

\* The chain root -> mid -> leaf in insertion order.
IsChain(d) ==
    /\ Len(d.keys) = 3
    /\ d.nodes[d.keys[1]].parents = <<>>
    /\ d.nodes[d.keys[2]].parents = <<d.keys[1]>>
    /\ d.nodes[d.keys[3]].parents = <<d.keys[2]>>

\* C19: traceCausalChain(from, to) returns the empty list exactly when from or
\* to is not stored or to is not reachable from from by forward edges;
\* otherwise a list of stored nodes from from to to in which each node is a
\* parent of the next. On the chain root -> mid -> leaf, root to leaf gives
\* [root, mid, leaf] and leaf to root gives the empty list.
C19_TraceIsForwardPath ==
    last.op = "traceCausalChain" =>
        LET out == last.out
        IN /\ out = <<>> <=>
                  \/ last.from \notin DOMAIN nodes
                  \/ last.to \notin DOMAIN nodes
                  \/ ~Reaches(this, last.from, last.to)
           /\ out # <<>> =>
                  /\ \A i \in 1..Len(out) :
                         /\ out[i].xmtpMsgId \in DOMAIN nodes
                         /\ nodes[out[i].xmtpMsgId] = out[i]
                  /\ out[1].xmtpMsgId = last.from
                  /\ out[Len(out)].xmtpMsgId = last.to
                  /\ \A i \in 1..(Len(out) - 1) :
                         /\ out[i].xmtpMsgId \in Range(out[i + 1].parents)
                         /\ out[i + 1].xmtpMsgId \in Range(getChildren(this, out[i].xmtpMsgId))
           /\ (IsChain(this) /\ last.from = keys[1] /\ last.to = keys[3]) =>
                  out = <<nodes[keys[1]], nodes[keys[2]], nodes[keys[3]]>>
           /\ (IsChain(this) /\ last.from = keys[3] /\ last.to = keys[1]) => out = <<>>

\* The chain root -> mid -> leaf has been traced from root to leaf.
C19_Witness ==
    /\ last.op = "traceCausalChain"
    /\ IsChain(this)
    /\ last.from = keys[1] /\ last.to = keys[3]
    /\ Len(last.out) = 3

\* ------------------------------------------------------------------ C20
\* The forward paths from from to to that visit no node twice, as lists of ids.
SimplePaths(d, from, to) ==
    {p \in SeqsUpTo(DOMAIN d.nodes, Cardinality(DOMAIN d.nodes)) :
        /\ Len(p) >= 1 /\ NoDup(p)
        /\ p[1] = from /\ p[Len(p)] = to
        /\ \A i \in 1..(Len(p) - 1) : p[i + 1] \in StoredChildren(d, p[i])}

\* C20: a non-empty chain returned by traceCausalChain has no more nodes than
\* any forward path between its endpoints.
C20_TraceIsShortest ==
    (last.op = "traceCausalChain" /\ last.out # <<>>) =>
        \A p \in SimplePaths(this, last.from, last.to) : Len(last.out) <= Len(p)

\* A two-node chain has been returned where a three-node path exists too, and
\* the first child of the start node lies on the longer path.
C20_Witness ==
    /\ last.op = "traceCausalChain"
    /\ Len(last.out) = 2
    /\ \E p \in SimplePaths(this, last.from, last.to) :
           Len(p) = 3 /\ getChildren(this, last.from)[1] = p[2]

\* ------------------------------------------------------------------ C21
\* The ids of the nodes among ks that declare p as a parent, once per
\* declaration, in the order of ks.
RECURSIVE DeclaredChildren(_, _, _)
DeclaredChildren(d, ks, p) ==
    IF ks = <<>> THEN <<>>
    ELSE LET ps == d.nodes[Head(ks)].parents
             n == Cardinality({i \in 1..Len(ps) : ps[i] = p})
         IN [i \in 1..n |-> Head(ks)] \o DeclaredChildren(d, Tail(ks), p)

\* rootNodes lists, once each, the ids whose node has no parents.
RootsRecomputed(d) ==
    /\ NoDup(d.rootNodes)
    /\ Range(d.rootNodes) = {k \in DOMAIN d.nodes : d.nodes[k].parents = <<>>}

\* C21: every step of addNode calls with pairwise distinct ids keeps the nodes
\* added before, stores the new node under its id, and leaves rootNodes the set
\* of ids whose node has no parents and getChildren(p), for every id p stored
\* or not, the list of the stored nodes that declare p, once per declaration,
\* in insertion order.
C21_StoreReflectsAdds ==
    [][/\ \A k \in DOMAIN nodes : getNode(this', k) = getNode(this, k)
       /\ \A k \in DOMAIN nodes' :
              getNode(this', k) # Undefined /\ getNode(this', k)[1].xmtpMsgId = k
       /\ Range(keys') = DOMAIN nodes'
       /\ RootsRecomputed(this')
       /\ \A p \in Ids : getChildren(this', p) = DeclaredChildren(this', keys', p)]_vars

\* A child was added before its parent, another node declares a parent twice,
\* and a parent that was never added has children.
C21_Witness ==
    /\ Len(keys) = 2
    /\ keys[2] \in Range(nodes[keys[1]].parents)
    /\ \E k \in DOMAIN nodes : \E p \in Ids \ DOMAIN nodes :
           nodes[k].parents = <<p, p>> /\ getChildren(this, p) = <<k, k>>

\* ------------------------------------------------------------------ C22
\* C22 (as claimed): in every state reached by addNode calls, replacing calls
\* included, the store holds one node per id, the root set is the set of ids
\* whose node has no parents, and the children of every id are the stored nodes
\* that declare it, once per declaration.
C22_DerivedStateRecomputable ==
    /\ NoDup(keys) /\ Range(keys) = DOMAIN nodes
    /\ RootsRecomputed(this)
    /\ \A p \in Ids :
           LET declared == DeclaredChildren(this, keys, p)
           IN /\ Range(getChildren(this, p)) = Range(declared)
              /\ Len(getChildren(this, p)) = Len(declared)

\* ------------------------------------------------------------------ C23
\* C23 (as claimed): importing the export of the store gives a store with the
\* same ids, the same nodes field by field, the same children lists and roots,
\* and the same thread root, audit report and contribution weights.
C23_ExportImportRoundTrip ==
    (last.op = "fromDict" /\ last.data = toDict(this)) =>
        /\ last.out.error = <<>>
        /\ LET g == last.out.value[1]
           IN /\ g.keys = keys
              /\ \A k \in DOMAIN nodes : g.nodes[k] = nodes[k]
              /\ \A p \in Ids : getChildren(g, p) = getChildren(this, p)
              /\ g.rootNodes = rootNodes
              /\ computeThreadRoot(g) = computeThreadRoot(this)
              /\ auditCausality(g) = auditCausality(this)
              /\ computeContributionWeights(g) = computeContributionWeights(this)

\* ------------------------------------------------------------------ C24
\* The store the node list of a dictionary gives by addNode calls.
Recomputed(data) ==
    Build(EmptyDKG, [i \in 1..Len(data.nodes) |-> nodeFromDict(data.nodes[i])])

\* C24 (as claimed): fromDict reports an error for a dictionary whose edges or
\* rootNodes differ from those recomputed from its node list.
C24_ImportValidatesDerived ==
    (/\ last.op = "fromDict"
     /\ ~(\E i \in 1..Len(last.data.nodes) : throwsBigInt(last.data.nodes[i]))
     /\ \/ last.data.edges # Recomputed(last.data).edges
        \/ last.data.rootNodes # Recomputed(last.data).rootNodes) =>
        last.out.error # <<>>

\* ------------------------------------------------------------------ C28
\* k has exactly three children, which have no children.
IsHubOfThree(d, k) ==
    /\ Len(getChildren(d, k)) = 3
    /\ Cardinality(Range(getChildren(d, k))) = 3
    /\ \A c \in Range(getChildren(d, k)) : getChildren(d, c) = <<>>

\* C28: findCriticalNodes(threshold) returns, once each, exactly the stored
\* ids whose descendant count is at least threshold, in order of
\* non-increasing descendant count; a node with three children and no other
\* descendants is returned for threshold 2.
C28_CriticalNodes ==
    last.op = "findCriticalNodes" =>
        LET out == last.out
        IN /\ NoDup(out)
           /\ Range(out) = {k \in DOMAIN nodes :
                               countDescendants(this, k) >= last.threshold}
           /\ \A i, j \in 1..Len(out) :
                  i < j => countDescendants(this, out[i]) >= countDescendants(this, out[j])
           /\ \A k \in DOMAIN nodes :
                  (IsHubOfThree(this, k) /\ last.threshold = 2) => k \in Range(out)

\* The critical nodes of a hub with three children, for threshold 2.
C28_Witness ==
    /\ last.op = "findCriticalNodes"
    /\ last.threshold = 2
    /\ IsHubOfThree(this, HubId)
    /\ last.out = <<HubId>>

\* ------------------------------------------------------------------ C25
\* C25: a step of a query operation (getNode, getChildren, topologicalSort,
\* computeThreadRoot, auditCausality, computeContributionWeights,
\* findCriticalNodes, traceCausalChain, toDict), returning or throwing, leaves
\* the nodes, their key order, the edges and the root list as they were.
C25_QueriesReadOnly ==
    [][last'.op # "none" =>
           /\ nodes' = nodes
           /\ keys' = keys
           /\ edges' = edges
           /\ rootNodes' = rootNodes]_vars

\* A query has thrown on a three-node graph all of whose nodes lie on a cycle.
C25_Witness ==
    /\ last.op = "topologicalSort"
    /\ last.out.error # <<>>
    /\ last.out.error[1].message = CycleMessage
    /\ Len(keys) = 3
    /\ \A k \in DOMAIN nodes : OnCycle(this, k)

\* ------------------------------------------------------------------ C27
\* C27: performCausalAudit reports auditPassed = true only if the evidence was
\* fetched, the thread root computed from it equals the expected root when one
\* is supplied (whatever the case of its digits), and the causal audit passed;
\* when the download fails or yields nothing, or the graph rebuilt from the
\* evidence cannot be sorted, the result has auditPassed = false, a non-empty
\* errors list, the zero dataHash and no scores or weights.
C27_AuditResult ==
    last.op = "performCausalAudit" =>
        LET out == last.out
            fetched == last.download.kind = "value"
            g == fromXMTPThread(last.download.evidence.xmtp_messages)
            expected == last.download.evidence.thread_root
        IN /\ out.auditPassed =>
                  /\ fetched
                  /\ computeThreadRoot(g).error = <<>>
                  /\ expected # Undefined =>
                         expected[1].digest = computeThreadRoot(g).value[1]
                  /\ auditCausality(g).passed
           /\ (~fetched \/ ~(Closed(g) /\ Acyclic(g))) =>
                  /\ out.auditPassed = FALSE
                  /\ out.errors # <<>>
                  /\ out.dataHash = ZeroHash
                  /\ out.scores = <<>>
                  /\ out.contributionWeights = <<>>

\* An audit has passed on a three-node graph whose expected root was supplied
\* in upper case.
C27_Witness ==
    /\ last.op = "performCausalAudit"
    /\ last.out.auditPassed
    /\ Len(keys) = 3
    /\ last.download.evidence.thread_root # Undefined
    /\ last.download.evidence.thread_root[1].upper

\* ------------------------------------------------------------------ C29
\* C29: in performCausalAudit the scoring step, and with it the parent
\* recursion of computeNodeDepth, is reached only when computeThreadRoot has
\* returned, which it does only for a closed acyclic graph; on such a graph the
\* recursion of every node ends within as many nested calls as there are
\* nodes, and no call stack overflow is reported. Evidence whose graph is
\* cyclic or not closed is diverted to the error result, with the error thrown
\* by the sort, before any score is computed.
C29_DepthRecursionGuarded ==
    (last.op = "performCausalAudit" /\ last.download.kind = "value") =>
        LET out == last.out
            g == fromXMTPThread(last.download.evidence.xmtp_messages)
            sorted == computeThreadRoot(g).error = <<>>
        IN /\ sorted =>
                  /\ Closed(g) /\ Acyclic(g)
                  /\ \A k \in DOMAIN g.nodes :
                         computeNodeDepth(g, g.nodes[k], Len(g.keys)).error = <<>>
                  /\ out.dkg = <<g>>
                  /\ DOMAIN out.scores = {agentKeyOf(g.nodes[k]) : k \in DOMAIN g.nodes}
           /\ ~sorted =>
                  /\ out.dkg = Undefined
                  /\ out.scores = <<>>
                  /\ out.errors = <<topologicalSort(g).error[1]>>
           /\ \A i \in 1..Len(out.errors) : out.errors[i] # RangeError

\* Evidence whose three nodes form a cycle has been audited and diverted.
C29_Witness ==
    /\ last.op = "performCausalAudit"
    /\ last.download.kind = "value"
    /\ Len(keys) = 3
    /\ Closed(this)
    /\ \A k \in DOMAIN nodes : OnCycle(this, k) /\ Len(nodes[k].parents) = 1
    /\ last.out.errors # <<>>
    /\ last.out.errors[1].message = CycleMessage

\* ------------------------------------------------------------------ C30
\* How often the issue x occurs in the list.
IssueCount(issues, x) == Cardinality({n \in 1..Len(issues) : issues[n] = x})

IsIntegrityIssue(x) == x.issue \in {MissingParentText, TimestampText}

\* C30: the audit's passed flag, its multiset of missing-parent and timestamp
\* issues, and the contribution weights returned for a store are those of
\* every store built from the same nodes by addNode calls in another order.
C30_InsertionOrderIndependent ==
    /\ last.op = "auditCausality" =>
           \A order \in KeyOrders(keys) :
               LET r == auditCausality(Rebuilt(this, order))
               IN /\ r.passed = last.out.passed
                  /\ \A x \in Range(r.issues) \cup Range(last.out.issues) :
                         IsIntegrityIssue(x) =>
                             IssueCount(r.issues, x) = IssueCount(last.out.issues, x)
    /\ last.op = "computeContributionWeights" =>
           \A order \in KeyOrders(keys) :
               computeContributionWeights(Rebuilt(this, order)) = last.out

\* The audit of two nodes by two authors, the child added before its parent,
\* that reports a missing parent and a timestamp inversion.
C30_Witness ==
    /\ last.op = "auditCausality"
    /\ Len(keys) = 2
    /\ keys[2] \in Range(nodes[keys[1]].parents)
    /\ \E x \in Range(last.out.issues) : x.issue = MissingParentText
    /\ \E x \in Range(last.out.issues) : x.issue = TimestampText
    /\ {nodes[k].author : k \in DOMAIN nodes} = {"A", "B"}

\* ------------------------------------------------------------------ C26
Traversals ==
    {"topologicalSort", "countDescendants", "computeContributionWeights",
     "findCriticalNodes", "traceCausalChain", "computeThreadRoot"}

\* What the finished call recorded in `last` returns by the methods' definitions.
ReturnsByDefinition ==
    /\ last.op = "topologicalSort" => last.out = topologicalSort(this)
    /\ last.op = "countDescendants" => last.out = countDescendants(this, last.key)
    /\ last.op = "computeContributionWeights" => last.out = computeContributionWeights(this)
    /\ last.op = "findCriticalNodes" => last.out = findCriticalNodes(this, last.threshold)
    /\ last.op = "traceCausalChain" => last.out = traceCausalChain(this, last.from, last.to)
    /\ last.op = "computeThreadRoot" => last.out = computeThreadRoot(this)

\* C26: each traversal that has started eventually returns or throws, on every
\* graph; a running traversal ends in no other way than by its own return or
\* throw, with the value its method defines.
C26_TraversalsTerminate ==
    /\ (last.op = "running") ~> (last.op \in Traversals)
    /\ [][\A call \in Traversals : Running(call) => last'.op \in {"running", call}]_vars
    /\ []ReturnsByDefinition

\* countDescendants has returned for a node that lies on a cycle and has an
\* edge to the same child twice, in a graph with a dangling parent.
C26_Witness ==
    /\ last.op = "countDescendants"
    /\ OnCycle(this, last.key)
    /\ Len(getChildren(this, last.key)) > Cardinality(Range(getChildren(this, last.key)))
    /\ ~Closed(this)

====
